---- MODULE Spec2Model ----
(***************************************************************************)
(* Model of the Vault storage engine (src/app/src/storage/mod.rs): the     *)
(* embedded ordered store, the tenant lifecycle, the encrypted secret      *)
(* records, the audit entries written beside them and the cached key blob. *)
(*                                                                         *)
(* Strings are sequences of one-character tokens, so that format!() is     *)
(* concatenation and split(':') really splits. The literal prefixes        *)
(* ("secret", "audit", ...) are single tokens. Argon2id and the AEAD are   *)
(* ideal: a derived key is the pair it was derived from, a ciphertext      *)
(* opens only under the key and nonce that sealed it.                      *)
(***************************************************************************)
EXTENDS Integers, Sequences, FiniteSets, TLC

VARIABLES
    db,              \* the store as the engine's handle sees it: key -> record
    durable,         \* the store as of the last flush: what a crash leaves
    master_key,      \* Option<MasterKey>
    current_tenant,  \* Option<String>
    now,             \* the last reading of the wall clock
    lastOp,          \* the call just made and what it returned
    lastPut,         \* history: per (tenant, (key, namespace)), the last put or delete
    emitted,         \* history: per tenant, the audit event types in emission order
    inits,           \* history: per tenant, the passphrase and key of each init
    session,         \* the session file: Option<Session>
    lastUnlock       \* history: per tenant, the master key of the last successful unlock

vars == <<db, durable, master_key, current_tenant, now, lastOp, lastPut, emitted, inits,
          session, lastUnlock>>

(***************************************************************************)
(* Bounds and input sets                                                   *)
(***************************************************************************)
\* the wall clock readings (nanoseconds) run over 0..MaxClock
MaxClock == 1
\* at most MaxEvents calls of log_audit_event per tenant in a behaviour
MaxEvents == 3
\* the lifetime of a session ticket in clock readings (24 h or 168 h of nanoseconds)
SessionDuration == 1

\* Option<T>: None is the empty sequence, Some(x) the sequence of x alone
None == <<>>
Some(x) == <<x>>
The(o) == o[1]
\* an absent string argument or payload
NoArg == "-"
COLON == ":"

TenantIds == {<<"t">>}
\* a tenant id nobody initialises
UnknownTenants == {<<"u">>}
\* a second tenant of the same store: its id extends the first one's by ":n"
OtherTenants == {<<"t", ":", "n">>}
Admins == {<<"a">>}
Passphrases == {"p", "q"}
Salts == {"s1", "s2"}
Nonces == {"n1"}
\* the nonce bytes of a record after one of them was changed
AlteredNonce == "n1x"
Namespaces == {<<"n">>, <<"n", ":", "a">>}
\* (key, namespace) pairs the callers address
SecretAddrs == {<<<<"b">>, <<"n">>>>, <<<<"a", ":", "b">>, <<"n">>>>, <<<<"b">>, <<"n", ":", "a">>>>}
\* the (key, namespace) pair the second tenant's secret is addressed by
OtherAddrs == {<<<<"b">>, <<"a">>>>}
\* (value, tags) pairs the callers store
Payloads == {<<"v", <<>>>>, <<"w", <<<<"g">>>>>>}
Queries == {<<"b">>}
\* the values Uuid::new_v4() draws from
Uuids == {"id1", "id2", "id3", "id4"}

(***************************************************************************)
(* Strings                                                                 *)
(***************************************************************************)
\* byte order of the characters that occur (ASCII: digits < ':' < letters)
Alphabet == <<"0", "1", "2", "3", "4", "5", "6", "7", "8", "9", ":",
              "A", "B", "G", "a", "b", "g", "n", "t", "u",
              "audit", "secret", "session_key", "tenant">>

Ord(c) == CHOOSE i \in 1..Len(Alphabet) : Alphabet[i] = c

RECURSIVE StrLess(_, _)
\* String::cmp / the store's key order: bytewise lexicographic
StrLess(s, t) ==
    IF t = <<>> THEN FALSE
    ELSE IF s = <<>> THEN TRUE
    ELSE IF Head(s) = Head(t) THEN StrLess(Tail(s), Tail(t))
    ELSE Ord(Head(s)) < Ord(Head(t))

IsPrefix(p, s) == Len(p) <= Len(s) /\ SubSeq(s, 1, Len(p)) = p

RECURSIVE Split(_)
\* str::split(':'): the segments between the separators, in order
Split(s) ==
    IF \A i \in 1..Len(s) : s[i] # COLON THEN <<s>>
    ELSE LET i == CHOOSE j \in 1..Len(s) :
                      s[j] = COLON /\ \A m \in 1..(j - 1) : s[m] # COLON
         IN  <<SubSeq(s, 1, i - 1)>> \o Split(SubSeq(s, i + 1, Len(s)))

Last(q) == q[Len(q)]

RECURSIVE Digits(_)
\* Display for an integer: its decimal digits
Digits(n) ==
    IF n < 10 THEN <<Alphabet[n + 1]>>
    ELSE Digits(n \div 10) \o <<Alphabet[(n % 10) + 1]>>

(***************************************************************************)
(* Record layout: the keys of the flat keyspace                            *)
(***************************************************************************)
TenantKey(tenant_id) == <<"tenant", COLON>> \o tenant_id

SessionKey(tenant_id) == <<"session_key", COLON>> \o tenant_id

SecretKey(tenant_id, namespace, key) ==
    <<"secret", COLON>> \o tenant_id \o <<COLON>> \o namespace \o <<COLON>> \o key

SecretPrefix(tenant_id, namespace) ==
    <<"secret", COLON>> \o tenant_id \o <<COLON>> \o namespace \o <<COLON>>

TenantPrefix(tenant_id) == <<"secret", COLON>> \o tenant_id \o <<COLON>>

AuditKey(tenant_id, nanos) == <<"audit", COLON>> \o tenant_id \o <<COLON>> \o Digits(nanos)

AuditPrefix(tenant_id) == <<"audit", COLON>> \o tenant_id \o <<COLON>>

\* sled insert: the store with key k bound to value v, whatever it held before
Insert(store, k, v) == [x \in (DOMAIN store) \cup {k} |-> IF x = k THEN v ELSE store[x]]

\* sled remove
Remove(store, k) == [x \in (DOMAIN store) \ {k} |-> store[x]]

ScanPrefix(store, p) == {k \in DOMAIN store : IsPrefix(p, k)}

(***************************************************************************)
(* Cryptography                                                            *)
(***************************************************************************)
Aes256Gcm == "Aes256Gcm"
\* [0u8; 32]
ZeroHash == [kdf |-> "zero", passphrase |-> NoArg, salt |-> NoArg]

\* Argon2id over (passphrase, salt): deterministic, collision free
derive_key_argon2id(passphrase, salt) == [kdf |-> "argon2id", passphrase |-> passphrase, salt |-> salt]

derive_from_passphrase(passphrase, salt, algorithm) ==
    [key |-> derive_key_argon2id(passphrase, salt), algorithm |-> algorithm]

\* the "key" of bytes that are no seal of any key: a value stored as it came,
\* or a ciphertext altered after it was sealed
Unsealed == [kdf |-> "none", passphrase |-> NoArg, salt |-> NoArg]

ChaCha20Poly1305 == "ChaCha20Poly1305"

\* the AEAD output of suite for plaintext under the key bytes and the nonce:
\* bytes that only the same suite, key and nonce open
Sealed(suite, key, nonce, plaintext) ==
    [suite |-> suite, sealed_with |-> key, sealed_nonce |-> nonce, plaintext |-> plaintext]

\* encrypt_aes256gcm with the nonce OsRng drew: (ciphertext, nonce)
encrypt_aes256gcm(key, plaintext, nonce) == <<Sealed(Aes256Gcm, key, nonce, plaintext), nonce>>

\* decrypt_aes256gcm: the tag verifies iff suite, key and nonce are those of the seal
decrypt_aes256gcm(key, ciphertext, nonce) ==
    IF ciphertext.suite = Aes256Gcm /\ ciphertext.sealed_with = key /\ ciphertext.sealed_nonce = nonce
    THEN [tag |-> "Ok", plaintext |-> ciphertext.plaintext]
    ELSE [tag |-> "Crypto", plaintext |-> NoArg]

\* encrypt_chacha20poly1305 with the nonce OsRng drew
encrypt_chacha20poly1305(key, plaintext, nonce) ==
    <<Sealed(ChaCha20Poly1305, key, nonce, plaintext), nonce>>

\* mutant: the ChaCha20-Poly1305 tag never verifies
decrypt_chacha20poly1305_refuses(key, ciphertext, nonce) == [tag |-> "Crypto", plaintext |-> NoArg]

\* decrypt_chacha20poly1305: as decrypt_aes256gcm, for the other suite
decrypt_chacha20poly1305(key, ciphertext, nonce) ==
    IF ciphertext.suite = ChaCha20Poly1305 /\ ciphertext.sealed_with = key
           /\ ciphertext.sealed_nonce = nonce
    THEN [tag |-> "Ok", plaintext |-> ciphertext.plaintext]
    ELSE [tag |-> "Crypto", plaintext |-> NoArg]

\* mutant: the value is stored as it came
encrypt_unsealed(mk, plaintext, nonce) ==
    [algorithm |-> mk.algorithm,
     ciphertext |-> Sealed(mk.algorithm, Unsealed, nonce, plaintext),
     nonce |-> nonce,
     version |-> 1]

\* MasterKey::encrypt: the suite is the key's own, the blob carries its tag
encrypt(mk, plaintext, nonce) ==
    LET sealed == IF mk.algorithm = Aes256Gcm
                  THEN encrypt_aes256gcm(mk.key, plaintext, nonce)
                  ELSE encrypt_chacha20poly1305(mk.key, plaintext, nonce)
    IN  [algorithm |-> mk.algorithm, ciphertext |-> sealed[1], nonce |-> sealed[2], version |-> 1]

\* MasterKey::decrypt: the suite is chosen by the blob's tag, the key's own
\* algorithm is not read
decrypt(mk, encrypted) ==
    IF encrypted.algorithm = Aes256Gcm
    THEN decrypt_aes256gcm(mk.key, encrypted.ciphertext, encrypted.nonce)
    ELSE decrypt_chacha20poly1305(mk.key, encrypted.ciphertext, encrypted.nonce)

(***************************************************************************)
(* Records of the store                                                    *)
(***************************************************************************)
\* Tenant::new (password_hash zeroed) / Tenant::new_with_password
Tenant(id, admin, salt, password_hash) ==
    [kind |-> "tenant", id |-> id, name |-> id, admin |-> admin, salt |-> salt,
     password_hash |-> password_hash]

\* the SecretMetadata literal of put_with_tags: both timestamps are Utc::now()
SecretMetadata(id, tenant_id, namespace, key, version, nanos, tags) ==
    [id |-> id, tenant_id |-> tenant_id, namespace |-> namespace, key |-> key,
     version |-> version, created_at |-> nanos, updated_at |-> nanos,
     created_by |-> "user", tags |-> tags]

Secret(metadata, encrypted_value) ==
    [kind |-> "secret", metadata |-> metadata, encrypted_value |-> encrypted_value]

AuditEntry(tenant_id, event_type, description, timestamp) ==
    [kind |-> "audit", tenant_id |-> tenant_id, event_type |-> event_type,
     description |-> description, timestamp |-> timestamp, user_id |-> "system"]

\* Session::new(tenant_id, user_id, role, duration_hours) at the reading nanos,
\* the duration in the unit of the clock
Session(tenant_id, user_id, role, duration, nanos) ==
    [tenant_id |-> tenant_id, user_id |-> user_id, role |-> role,
     created_at |-> nanos, expires_at |-> nanos + duration]

KeyBlob(mk) == [kind |-> "session_key", key_bytes |-> mk.key, algorithm |-> mk.algorithm]

\* what an operation returned: the observation the properties read
Op(op, tenant, key, namespace, arg, tag, value) ==
    [op |-> op, tenant |-> tenant, key |-> key, namespace |-> namespace, arg |-> arg,
     result |-> tag, value |-> value]

\* no call is outstanding: the caller has taken the last result
Idle == Op("idle", <<>>, <<>>, <<>>, NoArg, "Ok", <<>>)

Never == [state |-> "Never", value |-> NoArg, tags |-> <<>>]
Deleted == [state |-> "Deleted", value |-> NoArg, tags |-> <<>>]
Stored(value, tags) == [state |-> "Stored", value |-> value, tags |-> tags]

(***************************************************************************)
(* Engine helpers                                                          *)
(***************************************************************************)
\* VaultStorage::get_tenant
get_tenant(store, tenant_id) ==
    IF TenantKey(tenant_id) \in DOMAIN store THEN Some(store[TenantKey(tenant_id)]) ELSE None

\* mutant: the comparison is skipped
PassphraseRejected_never(derived_hash, password_hash) == FALSE

\* unlock's comparison of the derived key with the stored hash
PassphraseRejected(derived_hash, password_hash) == derived_hash # password_hash

\* VaultStorage::log_audit_event: one insert under audit:<tenant>:<nanos>, no flush
log_audit_event(store, tenant_id, event_type, description, nanos) ==
    Insert(store, AuditKey(tenant_id, nanos),
           AuditEntry(tenant_id, event_type, description, nanos))

\* VaultStorage::store_key_data_for_session: the blob under session_key:<tenant>
store_key_data_for_session(store, tenant_id, mk) ==
    Insert(store, SessionKey(tenant_id), KeyBlob(mk))

\* generate_salt(): 32 random bytes, so a value no tenant record of the store holds
generate_salt(store) ==
    CHOOSE s \in Salts : \A t \in TenantIds \cup OtherTenants :
        get_tenant(store, t) = None \/ The(get_tenant(store, t)).salt # s

\* Uuid::new_v4(): 122 random bits, so an id no secret record of the store holds
new_v4(store) ==
    CHOOSE u \in Uuids : \A k \in DOMAIN store : store[k].kind = "secret" => store[k].metadata.id # u

\* mutant: an overwrite counts the version down
put_version_countdown(store, storage_key) ==
    IF storage_key \in DOMAIN store THEN store[storage_key].metadata.version - 1 ELSE 1

\* the version put_with_tags writes: "version: 1", whatever the store holds
put_version(store, storage_key) == 1

\* the "?" on master_key and current_tenant in put_with_tags and get_with_metadata
LockedForSecrets == master_key = None \/ current_tenant = None

\* the "?" on current_tenant in list_with_metadata, delete and search
LockedForScan == current_tenant = None

CanEmit(tenant_id) == Len(emitted[tenant_id]) < MaxEvents

\* Utc::now(): the instant of the previous reading or a later one
ClockReadings == {n \in {now, now + 1} : n <= MaxClock}

Emit(tenant_id, event_type) ==
    [emitted EXCEPT ![tenant_id] = Append(@, event_type)]

(***************************************************************************)
(* Initial state: VaultStorage::new over an empty store, no session file   *)
(***************************************************************************)
Init ==
    /\ db = <<>>
    /\ durable = <<>>
    /\ master_key = None
    /\ current_tenant = None
    /\ now = 0
    /\ lastOp = Idle
    /\ lastPut = [x \in (TenantIds \cup OtherTenants) \X (SecretAddrs \cup OtherAddrs) |-> Never]
    /\ emitted = [t \in TenantIds \cup OtherTenants |-> <<>>]
    /\ inits = [t \in TenantIds \cup OtherTenants |-> <<>>]
    /\ session = None
    /\ lastUnlock = [t \in TenantIds \cup OtherTenants |-> None]

(***************************************************************************)
(* Tenant lifecycle                                                        *)
(***************************************************************************)
\* VaultStorage::init_tenant: the path without a password
init_tenant(tenant_id, admin, nanos) ==
    /\ CanEmit(tenant_id)
    /\ LET salt == generate_salt(db)
           stored == Insert(db, TenantKey(tenant_id), Tenant(tenant_id, admin, salt, ZeroHash))
       IN  /\ durable' = stored
           /\ db' = log_audit_event(stored, tenant_id, "tenant_created", <<tenant_id, admin>>, nanos)
    /\ emitted' = Emit(tenant_id, "tenant_created")
    /\ inits' = [inits EXCEPT ![tenant_id] = Append(@, [passphrase |-> NoArg, key |-> ZeroHash])]
    /\ lastOp' = Op("init_tenant", tenant_id, <<>>, <<>>, NoArg, "Ok", <<>>)
    /\ now' = nanos
    /\ UNCHANGED <<master_key, current_tenant, lastPut>>

\* VaultStorage::init_tenant_with_password
init_tenant_with_password(tenant_id, admin, password, nanos) ==
    /\ CanEmit(tenant_id)
    /\ LET salt == generate_salt(db)
           mk == derive_from_passphrase(password, salt, Aes256Gcm)
           stored == Insert(db, TenantKey(tenant_id), Tenant(tenant_id, admin, salt, mk.key))
       IN  /\ durable' = stored
           /\ db' = log_audit_event(stored, tenant_id, "tenant_created", <<tenant_id, admin>>, nanos)
    /\ emitted' = Emit(tenant_id, "tenant_created")
    /\ inits' = [inits EXCEPT ![tenant_id] =
                     Append(@, [passphrase |-> password,
                                key |-> db'[TenantKey(tenant_id)].password_hash])]
    /\ lastOp' = Op("init_tenant", tenant_id, <<>>, <<>>, password, "Ok", <<>>)
    /\ now' = nanos
    /\ UNCHANGED <<master_key, current_tenant, lastPut>>

\* the Result of unlock(tenant_id, passphrase) on the current store
unlock_result(tenant_id, passphrase) ==
    LET tenant == get_tenant(db, tenant_id)
    IN  IF tenant = None THEN "TenantNotFound"
        ELSE IF PassphraseRejected(derive_from_passphrase(passphrase, The(tenant).salt, Aes256Gcm).key,
                                   The(tenant).password_hash)
             THEN "InvalidPassphrase"
             ELSE "Ok"

\* mutant: the key and the tenant are installed before the hash is compared
unlock_install_first(tenant_id, passphrase) ==
    LET res == unlock_result(tenant_id, passphrase)
    IN  /\ lastOp' = Op("unlock", tenant_id, <<>>, <<>>, passphrase, res, <<>>)
        /\ IF res = "TenantNotFound"
           THEN UNCHANGED <<master_key, current_tenant, db, durable>>
           ELSE LET mk == derive_from_passphrase(passphrase, The(get_tenant(db, tenant_id)).salt, Aes256Gcm)
                IN  /\ master_key' = Some(mk)
                    /\ current_tenant' = Some(tenant_id)
                    /\ db' = IF res = "Ok" THEN store_key_data_for_session(db, tenant_id, mk) ELSE db
                    /\ durable' = IF res = "Ok" THEN db' ELSE durable
                    /\ lastUnlock' = IF res = "Ok" THEN [lastUnlock EXCEPT ![tenant_id] = Some(mk)]
                                      ELSE lastUnlock
        /\ IF res = "TenantNotFound" THEN UNCHANGED lastUnlock ELSE TRUE
        /\ UNCHANGED <<lastPut, emitted, inits>>

\* VaultStorage::unlock
unlock(tenant_id, passphrase) ==
    LET res == unlock_result(tenant_id, passphrase)
    IN  /\ lastOp' = Op("unlock", tenant_id, <<>>, <<>>, passphrase, res, <<>>)
        /\ IF res = "Ok"
           THEN LET mk == derive_from_passphrase(passphrase, The(get_tenant(db, tenant_id)).salt, Aes256Gcm)
                IN  /\ master_key' = Some(mk)
                    /\ current_tenant' = Some(tenant_id)
                    /\ db' = store_key_data_for_session(db, tenant_id, mk)
                    /\ durable' = db'
                    /\ lastUnlock' = [lastUnlock EXCEPT ![tenant_id] = Some(mk)]
           ELSE UNCHANGED <<master_key, current_tenant, db, durable, lastUnlock>>
        /\ UNCHANGED <<lastPut, emitted, inits>>

(***************************************************************************)
(* Session ticket and engine construction                                  *)
(***************************************************************************)
\* Session::is_valid at the reading nanos: Utc::now() < expires_at
is_valid(ticket, nanos) == nanos < ticket.expires_at

\* SessionManager::load_session at the reading nanos: the ticket if it is
\* valid; an expired ticket is reported as none
load_session(file, nanos) ==
    IF file # None /\ is_valid(The(file), nanos) THEN file ELSE None

\* mutant: the cached blob is never found
get_stored_key_data_none(store, tenant_id) == None

\* VaultStorage::get_stored_key_data: the MasterKey the blob of tenant_id holds
get_stored_key_data(store, tenant_id) ==
    IF SessionKey(tenant_id) \in DOMAIN store
    THEN Some([key |-> store[SessionKey(tenant_id)].key_bytes,
               algorithm |-> store[SessionKey(tenant_id)].algorithm])
    ELSE None

\* the key try_auto_unlock installs: the blob of the ticket's tenant, given a
\* ticket that load_session returned at the reading c1 and that is_valid
\* still finds valid at the reading c2
auto_unlock_key(store, file, c1, c2) ==
    LET loaded == load_session(file, c1)
    IN  IF loaded # None /\ is_valid(The(loaded), c2)
        THEN get_stored_key_data(store, The(loaded).tenant_id)
        ELSE None

\* mutant: auto-unlock installs the key and leaves the tenant unset
new_key_only(c1, c2) ==
    /\ master_key' = auto_unlock_key(db, session, c1, c2)
    /\ current_tenant' = None
    /\ session' = load_session(session, c1)
    /\ now' = IF session = None THEN now ELSE IF load_session(session, c1) = None THEN c1 ELSE c2
    /\ lastOp' = Op("new", IF session = None THEN <<>> ELSE The(session).tenant_id,
                    <<>>, <<>>, NoArg, "Ok", <<>>)
    /\ UNCHANGED <<db, durable, lastPut, emitted, inits, lastUnlock>>

\* VaultStorage::new over the store: a locked engine, then try_auto_unlock.
\* load_session removes the file of an expired ticket.
new(c1, c2) ==
    LET mk == auto_unlock_key(db, session, c1, c2)
    IN  /\ master_key' = mk
        /\ current_tenant' = IF mk = None THEN None ELSE Some(The(session).tenant_id)
        /\ session' = load_session(session, c1)
        /\ now' = IF session = None THEN now ELSE IF load_session(session, c1) = None THEN c1 ELSE c2
        /\ lastOp' = Op("new", IF session = None THEN <<>> ELSE The(session).tenant_id,
                        <<>>, <<>>, NoArg, "Ok", <<>>)
        /\ UNCHANGED <<db, durable, lastPut, emitted, inits, lastUnlock>>

\* login_command: unlock, and on success a ticket saved to the session file.
\* role is Admin, or in collaborative mode the role get_user_role reports.
login_command(tenant, passphrase, role, duration, nanos) ==
    IF get_tenant(db, tenant) = None
    THEN /\ lastOp' = Op("login", tenant, <<>>, <<>>, passphrase, "TenantNotFound", <<>>)
         /\ UNCHANGED <<db, durable, master_key, current_tenant, now, lastPut, emitted, inits,
                         session, lastUnlock>>
    ELSE /\ unlock(tenant, passphrase)
         /\ IF lastOp'.result = "Ok"
            THEN /\ session' = Some(Session(tenant, "admin", role, duration, nanos))
                 /\ now' = nanos
            ELSE UNCHANGED <<session, now>>

\* VaultStorage::clear_session_key: the blob is removed, nothing is flushed
clear_session_key(store, tenant_id) == Remove(store, SessionKey(tenant_id))

\* logout_command: with a valid ticket, the blob of its tenant is cleared in
\* the store under ~/.vault/vault.db if that store opens, and the session file
\* is removed. opened: that store is the engine's store and VaultStorage::new
\* on it succeeded.
logout_command(opened, nanos) ==
    LET loaded == load_session(session, nanos)
    IN  /\ session' = None
        /\ now' = IF session = None THEN now ELSE nanos
        /\ IF loaded = None
           THEN /\ lastOp' = Op("logout", <<>>, <<>>, <<>>, NoArg, "NoSession", <<>>)
                /\ UNCHANGED db
           ELSE /\ lastOp' = Op("logout", The(loaded).tenant_id, <<>>, <<>>, NoArg, "Ok", <<>>)
                /\ db' = IF opened THEN clear_session_key(db, The(loaded).tenant_id) ELSE db
        /\ UNCHANGED <<durable, master_key, current_tenant, lastPut, emitted, inits, lastUnlock>>

(***************************************************************************)
(* Secrets                                                                 *)
(***************************************************************************)
\* VaultStorage::put_with_tags (put is put_with_tags with no tags)
put_with_tags(key, value, namespace, tags, nonce, nanos) ==
    IF LockedForSecrets
    THEN /\ lastOp' = Op("put", <<>>, <<>>, <<>>, NoArg, "VaultLocked", <<>>)
         /\ UNCHANGED <<db, durable, master_key, current_tenant, now, lastPut, emitted, inits>>
    ELSE LET tenant_id == The(current_tenant)
             storage_key == SecretKey(tenant_id, namespace, key)
             metadata == SecretMetadata(new_v4(db), tenant_id, namespace, key,
                                        put_version(db, storage_key), nanos, tags)
             secret == Secret(metadata, encrypt(The(master_key), value, nonce))
             stored == Insert(db, storage_key, secret)
         IN  /\ CanEmit(tenant_id)
             /\ durable' = stored
             /\ db' = log_audit_event(stored, tenant_id, "secret_created", <<namespace, key>>, nanos)
             /\ emitted' = Emit(tenant_id, "secret_created")
             /\ lastPut' = [lastPut EXCEPT ![<<tenant_id, <<key, namespace>>>>] = Stored(value, tags)]
             /\ lastOp' = Op("put", tenant_id, key, namespace, value, "Ok", <<>>)
             /\ now' = nanos
             /\ UNCHANGED <<master_key, current_tenant, inits>>

\* mutant: a locked engine reports a miss
get_result_locked_is_miss(key, namespace) ==
    IF LockedForSecrets THEN [tag |-> "None", value |-> <<>>]
    ELSE LET storage_key == SecretKey(The(current_tenant), namespace, key)
         IN  IF storage_key \notin DOMAIN db THEN [tag |-> "None", value |-> <<>>]
             ELSE LET secret == db[storage_key]
                      decrypted == decrypt(The(master_key), secret.encrypted_value)
                  IN  IF decrypted.tag # "Ok" THEN [tag |-> "Crypto", value |-> <<>>]
                      ELSE [tag |-> "Some",
                            value |-> <<decrypted.plaintext, secret.metadata.tags>>]

\* mutant: a miss is reported as the error SecretNotFound
get_result_miss_is_error(key, namespace) ==
    IF LockedForSecrets THEN [tag |-> "VaultLocked", value |-> <<>>]
    ELSE LET storage_key == SecretKey(The(current_tenant), namespace, key)
         IN  IF storage_key \notin DOMAIN db THEN [tag |-> "SecretNotFound", value |-> <<>>]
             ELSE LET secret == db[storage_key]
                      decrypted == decrypt(The(master_key), secret.encrypted_value)
                  IN  IF decrypted.tag # "Ok" THEN [tag |-> "Crypto", value |-> <<>>]
                      ELSE [tag |-> "Some",
                            value |-> <<decrypted.plaintext, secret.metadata.tags>>]

\* the Result of get_with_metadata(key, namespace) on the current state:
\* VaultLocked, None, Crypto, or Some with <<plaintext, tags>>
get_result(key, namespace) ==
    IF LockedForSecrets THEN [tag |-> "VaultLocked", value |-> <<>>]
    ELSE LET storage_key == SecretKey(The(current_tenant), namespace, key)
         IN  IF storage_key \notin DOMAIN db THEN [tag |-> "None", value |-> <<>>]
             ELSE LET secret == db[storage_key]
                      decrypted == decrypt(The(master_key), secret.encrypted_value)
                  IN  IF decrypted.tag # "Ok" THEN [tag |-> "Crypto", value |-> <<>>]
                      ELSE [tag |-> "Some",
                            value |-> <<decrypted.plaintext, secret.metadata.tags>>]

\* VaultStorage::get_with_metadata: a hit is logged as secret_accessed
get_with_metadata(key, namespace, nanos) ==
    LET res == get_result(key, namespace)
        tenant_id == IF current_tenant = None THEN <<>> ELSE The(current_tenant)
    IN  /\ lastOp' = Op("get", tenant_id, key, namespace, NoArg, res.tag, res.value)
        /\ IF res.tag = "Some"
           THEN /\ CanEmit(tenant_id)
                /\ db' = log_audit_event(db, tenant_id, "secret_accessed", <<namespace, key>>, nanos)
                /\ emitted' = Emit(tenant_id, "secret_accessed")
                /\ now' = nanos
           ELSE UNCHANGED <<db, emitted, now>>
        /\ UNCHANGED <<durable, master_key, current_tenant, lastPut, inits>>

\* the name list_with_metadata reports for a stored key: key_str.split(':').last()
ListedName(storage_key) == Last(Split(storage_key))

\* results.sort_by(|a, b| a.0.cmp(&b.0)): a stable sort of the scan order by name
ListBefore(k, j) ==
    \/ StrLess(ListedName(k), ListedName(j))
    \/ ListedName(k) = ListedName(j) /\ StrLess(k, j)

RECURSIVE SortedNames(_)
SortedNames(S) ==
    IF S = {} THEN <<>>
    ELSE LET k == CHOOSE x \in S : \A y \in S \ {x} : ListBefore(x, y)
         IN  <<ListedName(k)>> \o SortedNames(S \ {k})

\* the names list_with_metadata(namespace, tag_filter) returns for tenant_id
list_names(store, tenant_id, namespace, tag_filter) ==
    SortedNames({k \in ScanPrefix(store, SecretPrefix(tenant_id, namespace)) :
                    tag_filter = None \/
                    \E i \in 1..Len(store[k].metadata.tags) :
                        store[k].metadata.tags[i] = The(tag_filter)})

\* VaultStorage::list: list_with_metadata without a tag filter, names only
list(namespace) ==
    /\ lastOp' = IF LockedForScan
                 THEN Op("list", <<>>, <<>>, <<>>, NoArg, "VaultLocked", <<>>)
                 ELSE Op("list", The(current_tenant), <<>>, namespace, NoArg, "Ok",
                         list_names(db, The(current_tenant), namespace, None))
    /\ UNCHANGED <<db, durable, master_key, current_tenant, now, lastPut, emitted, inits>>

\* VaultStorage::delete
delete(key, namespace, nanos) ==
    IF LockedForScan
    THEN /\ lastOp' = Op("delete", <<>>, <<>>, <<>>, NoArg, "VaultLocked", <<>>)
         /\ UNCHANGED <<db, durable, master_key, current_tenant, now, lastPut, emitted, inits>>
    ELSE LET tenant_id == The(current_tenant)
             storage_key == SecretKey(tenant_id, namespace, key)
         IN  IF storage_key \in DOMAIN db
             THEN /\ CanEmit(tenant_id)
                  /\ durable' = Remove(db, storage_key)
                  /\ db' = log_audit_event(Remove(db, storage_key), tenant_id, "secret_deleted",
                                           <<namespace, key>>, nanos)
                  /\ emitted' = Emit(tenant_id, "secret_deleted")
                  /\ lastPut' = [lastPut EXCEPT ![<<tenant_id, <<key, namespace>>>>] = Deleted]
                  /\ lastOp' = Op("delete", tenant_id, key, namespace, NoArg, "Ok", <<>>)
                  /\ now' = nanos
                  /\ UNCHANGED <<master_key, current_tenant, inits>>
             ELSE /\ lastOp' = Op("delete", tenant_id, key, namespace, NoArg, "SecretNotFound", <<>>)
                  /\ UNCHANGED <<db, durable, master_key, current_tenant, now, lastPut, emitted, inits>>

(***************************************************************************)
(* Search                                                                  *)
(***************************************************************************)
LowerChar(c) == CASE c = "A" -> "a" [] c = "B" -> "b" [] c = "G" -> "g" [] OTHER -> c

\* str::to_lowercase
to_lowercase(str) == [i \in 1..Len(str) |-> LowerChar(str[i])]

\* str::contains: q occurs in str as a substring
contains(str, q) == \E i \in 0..(Len(str) - Len(q)) : SubSeq(str, i + 1, i + Len(q)) = q

\* the (namespace, secret_key) pair search reads off a stored key: parts[2], parts[3]
SearchPair(storage_key) == <<Split(storage_key)[3], Split(storage_key)[4]>>

\* whether search(query, namespace_filter) reports the record under storage_key
SearchHit(store, storage_key, query, namespace_filter) ==
    /\ Len(Split(storage_key)) >= 4
    /\ namespace_filter = None \/ SearchPair(storage_key)[1] = The(namespace_filter)
    /\ \/ contains(to_lowercase(SearchPair(storage_key)[2]), to_lowercase(query))
       \/ \E i \in 1..Len(store[storage_key].metadata.tags) :
              contains(to_lowercase(store[storage_key].metadata.tags[i]), to_lowercase(query))

\* Vec<(String, String)>::sort: by namespace, then by key
PairBefore(k, j) ==
    LET a == SearchPair(k)
        b == SearchPair(j)
    IN  \/ StrLess(a[1], b[1])
        \/ a[1] = b[1] /\ StrLess(a[2], b[2])
        \/ a = b /\ StrLess(k, j)

RECURSIVE SortedPairs(_)
SortedPairs(S) ==
    IF S = {} THEN <<>>
    ELSE LET k == CHOOSE x \in S : \A y \in S \ {x} : PairBefore(x, y)
         IN  <<SearchPair(k)>> \o SortedPairs(S \ {k})

search_pairs(store, tenant_id, query, namespace_filter) ==
    SortedPairs({k \in ScanPrefix(store, TenantPrefix(tenant_id)) :
                    SearchHit(store, k, query, namespace_filter)})

\* VaultStorage::search
search(query, namespace_filter) ==
    /\ lastOp' = IF LockedForScan
                 THEN Op("search", <<>>, <<>>, <<>>, NoArg, "VaultLocked", <<>>)
                 ELSE Op("search", The(current_tenant), query, namespace_filter, NoArg, "Ok",
                         search_pairs(db, The(current_tenant), query, namespace_filter))
    /\ UNCHANGED <<db, durable, master_key, current_tenant, now, lastPut, emitted, inits>>

(***************************************************************************)
(* The caller: one call at a time, each result taken before the next call  *)
(***************************************************************************)
CallInitTenant ==
    /\ lastOp = Idle
    /\ \E t \in TenantIds, a \in Admins, c \in ClockReadings : init_tenant(t, a, c)
    /\ UNCHANGED <<session, lastUnlock>>

CallInitTenantWithPassword ==
    /\ lastOp = Idle
    /\ \E t \in TenantIds, a \in Admins, p \in Passphrases, c \in ClockReadings :
           init_tenant_with_password(t, a, p, c)
    /\ UNCHANGED <<session, lastUnlock>>

CallUnlock ==
    /\ lastOp = Idle
    /\ \E t \in TenantIds \cup UnknownTenants, p \in Passphrases : unlock(t, p)
    /\ UNCHANGED <<now, session>>

CallPut ==
    /\ lastOp = Idle
    /\ \E x \in SecretAddrs, y \in Payloads, n \in Nonces, c \in ClockReadings :
           put_with_tags(x[1], y[1], x[2], y[2], n, c)
    /\ UNCHANGED <<session, lastUnlock>>

CallGet ==
    /\ lastOp = Idle
    /\ \E x \in SecretAddrs, c \in ClockReadings : get_with_metadata(x[1], x[2], c)
    /\ UNCHANGED <<session, lastUnlock>>

CallList ==
    /\ lastOp = Idle
    /\ \E ns \in Namespaces : list(ns)
    /\ UNCHANGED <<session, lastUnlock>>

CallDelete ==
    /\ lastOp = Idle
    /\ \E x \in SecretAddrs, c \in ClockReadings : delete(x[1], x[2], c)
    /\ UNCHANGED <<session, lastUnlock>>

CallSearch ==
    /\ lastOp = Idle
    /\ \E q \in Queries, f \in {None} \cup {Some(ns) : ns \in Namespaces} : search(q, f)
    /\ UNCHANGED <<session, lastUnlock>>

CallNew ==
    /\ lastOp = Idle
    /\ \E c1 \in ClockReadings : \E c2 \in {c \in {c1, c1 + 1} : c <= MaxClock} : new(c1, c2)

CallLogin ==
    /\ lastOp = Idle
    /\ \E t \in TenantIds \cup UnknownTenants, p \in Passphrases, c \in ClockReadings :
           login_command(t, p, "Admin", SessionDuration, c)

CallLogout ==
    /\ lastOp = Idle
    /\ \E opened \in BOOLEAN, c \in ClockReadings : logout_command(opened, c)

\* the caller takes the result of the call it made
Return ==
    /\ lastOp # Idle
    /\ lastOp' = Idle
    /\ UNCHANGED <<db, durable, master_key, current_tenant, now, lastPut, emitted, inits,
                    session, lastUnlock>>

Next ==
    \/ CallInitTenant
    \/ CallInitTenantWithPassword
    \/ CallUnlock
    \/ CallPut
    \/ CallGet
    \/ CallList
    \/ CallDelete
    \/ CallSearch
    \/ Return

\* the operations on one engine instance
Spec == Init /\ [][Next]_vars

\* the one secret the commands of the session specification put and read
SessionAddrs == {<<<<"b">>, <<"n">>>>}
SessionPayloads == {<<"v", <<>>>>}

CallSessionPut ==
    /\ lastOp = Idle
    /\ \E x \in SessionAddrs, y \in SessionPayloads, n \in Nonces, c \in ClockReadings :
           put_with_tags(x[1], y[1], x[2], y[2], n, c)
    /\ UNCHANGED <<session, lastUnlock>>

CallSessionGet ==
    /\ lastOp = Idle
    /\ \E x \in SessionAddrs, c \in ClockReadings : get_with_metadata(x[1], x[2], c)
    /\ UNCHANGED <<session, lastUnlock>>

\* the command line's life of an engine: tenants are initialised, a login
\* unlocks and leaves a ticket, secrets are put and read, and the engine is
\* constructed anew over the same store
NextSession ==
    \/ CallInitTenantWithPassword
    \/ CallUnlock
    \/ CallLogin
    \/ CallLogout
    \/ CallNew
    \/ CallSessionPut
    \/ CallSessionGet
    \/ Return

SpecSession == Init /\ [][NextSession]_vars

(***************************************************************************)
(* The store's file changed from outside the engine                        *)
(***************************************************************************)
\* the EncryptedData with a byte of its ciphertext or of its nonce changed
Altered(encrypted, part) ==
    IF part = "ciphertext"
    THEN [encrypted EXCEPT !.ciphertext.sealed_with = Unsealed]
    ELSE [encrypted EXCEPT !.nonce = AlteredNonce]

AlteredStore(store, k, part) ==
    IF k \in DOMAIN store /\ store[k].kind = "secret"
    THEN [store EXCEPT ![k].encrypted_value = Altered(@, part)]
    ELSE store

\* somebody with access to the data file changes the bytes of a secret record
Tamper ==
    /\ lastOp = Idle
    /\ \E k \in DOMAIN db, part \in {"ciphertext", "nonce"} :
           /\ db[k].kind = "secret"
           /\ db' = AlteredStore(db, k, part)
           /\ durable' = AlteredStore(durable, k, part)
    /\ UNCHANGED <<master_key, current_tenant, now, lastOp, lastPut, emitted, inits,
                    session, lastUnlock>>

SpecTamper == Init /\ [][Next \/ Tamper]_vars

(***************************************************************************)
(* Observations the properties share                                       *)
(***************************************************************************)
Range(q) == {q[i] : i \in 1..Len(q)}

\* the engine holds a master key for tenant_id
UnlockedFor(tenant_id) == master_key # None /\ current_tenant = Some(tenant_id)

\* the step is the call op: made from Idle, its result in lastOp'
Called(ops) == lastOp = Idle /\ lastOp'.op \in ops

\* the passphrase tenant_id was last initialised with (NoArg: none, or never initialised)
InitPass(tenant_id) ==
    IF inits[tenant_id] = <<>> THEN NoArg ELSE Last(inits[tenant_id]).passphrase

\* the master keys tenant_id has had
KeysOf(tenant_id) == {inits[tenant_id][i].key : i \in 1..Len(inits[tenant_id])} \ {ZeroHash}

\* the audit entries the store holds for tenant_id
AuditEntriesOf(store, tenant_id) ==
    {k \in DOMAIN store : store[k].kind = "audit" /\ store[k].tenant_id = tenant_id}

RECURSIVE InKeyOrder(_, _)
\* the event types of the entries under the keys S, enumerated in key order
InKeyOrder(store, S) ==
    IF S = {} THEN <<>>
    ELSE LET k == CHOOSE x \in S : \A y \in S \ {x} : StrLess(x, y)
         IN  <<store[k].event_type>> \o InKeyOrder(store, S \ {k})

\* the audit log of tenant_id as an ordered scan of audit:<tenant>: reads it
AuditLog(store, tenant_id) == InKeyOrder(store, ScanPrefix(store, AuditPrefix(tenant_id)))

(***************************************************************************)
(* C1                                                                      *)
(***************************************************************************)
\* C1: for a tenant created by init_tenant with passphrase P0, unlock(T, P)
\* returns success iff P = P0, and on success the engine holds T's key for T.
C1_UnlockIffPassphrase ==
    (lastOp.op = "unlock" /\ lastOp.tenant \in TenantIds /\ InitPass(lastOp.tenant) # NoArg)
        => /\ lastOp.result = "Ok" <=> lastOp.arg = InitPass(lastOp.tenant)
           /\ lastOp.result = "Ok" =>
                  /\ UnlockedFor(lastOp.tenant)
                  /\ The(master_key).key = The(get_tenant(db, lastOp.tenant)).password_hash

\* an unlock with the passphrase of the tenant's second initialisation succeeded
C1_Witness ==
    /\ lastOp.op = "unlock" /\ lastOp.result = "Ok" /\ lastOp.tenant \in TenantIds
    /\ Len(inits[lastOp.tenant]) = 2
    /\ inits[lastOp.tenant][1].passphrase # lastOp.arg

(***************************************************************************)
(* C2                                                                      *)
(***************************************************************************)
\* C2: on an engine unlocked for T, once put(k, v, ns) with tags g has succeeded,
\* get(k, ns) returns v and g, whatever calls were made since that neither put
\* nor deleted (ns, k).
C2_GetReturnsLastPut ==
    \A t \in TenantIds, x \in SecretAddrs :
        (UnlockedFor(t) /\ lastPut[<<t, x>>].state = "Stored")
            => get_result(x[1], x[2]) =
                   [tag |-> "Some", value |-> <<lastPut[<<t, x>>].value, lastPut[<<t, x>>].tags>>]

(***************************************************************************)
(* C3                                                                      *)
(***************************************************************************)
\* C3: after a successful put(k, v, ns), list(ns) contains k; after a successful
\* delete(k, ns), get(k, ns) returns None and list(ns) does not contain k.
C3_ListAndDelete ==
    /\ (lastOp.op = "list" /\ lastOp.result = "Ok") =>
           \A x \in SecretAddrs :
               x[2] = lastOp.namespace =>
                   /\ lastPut[<<lastOp.tenant, x>>].state = "Stored" => x[1] \in Range(lastOp.value)
                   /\ lastPut[<<lastOp.tenant, x>>].state = "Deleted" => x[1] \notin Range(lastOp.value)
    /\ (lastOp.op = "get" /\ lastOp.result # "VaultLocked") =>
           (lastPut[<<lastOp.tenant, <<lastOp.key, lastOp.namespace>>>>].state = "Deleted"
                => lastOp.result = "None")

(***************************************************************************)
(* C4                                                                      *)
(***************************************************************************)
\* C4: every record under a secret: key holds its value sealed by the AEAD
\* under a master key of its tenant, and nothing else is stored there.
C4_SecretsSealed ==
    \A k \in DOMAIN db :
        IsPrefix(<<"secret", COLON>>, k) =>
            /\ db[k].kind = "secret"
            /\ db[k].metadata.tenant_id \in TenantIds
            /\ db[k].encrypted_value.ciphertext.sealed_with \in KeysOf(db[k].metadata.tenant_id)
            /\ db[k].encrypted_value.ciphertext.sealed_nonce = db[k].encrypted_value.nonce

\* two secret records are stored
C4_Witness ==
    Cardinality({k \in DOMAIN db : db[k].kind = "secret"}) = 2

(***************************************************************************)
(* C5, C6, C7, C8: the audit log                                           *)
(***************************************************************************)
\* C5: every successful init_tenant, put or delete for tenant T adds exactly
\* one audit entry to those stored for T.
C5_OneEntryPerMutation ==
    [][(Called({"init_tenant", "put", "delete"}) /\ lastOp'.result = "Ok")
          => Cardinality(AuditEntriesOf(db', lastOp'.tenant))
                 = Cardinality(AuditEntriesOf(db, lastOp'.tenant)) + 1]_vars

\* C6: an audit entry, once written, is never overwritten, edited or deleted
\* by a later engine operation.
C6_AuditAppendOnly ==
    [][\A k \in DOMAIN db :
           db[k].kind = "audit" => (k \in DOMAIN db' /\ db'[k] = db[k])]_vars

\* C7: enumerated in audit-key order, the audit entries of a tenant come in
\* the order in which the operations emitted them.
C7_AuditOrder ==
    \A t \in TenantIds : AuditLog(db, t) = emitted[t]

\* C8: when init_tenant, put, delete or unlock has returned success, every
\* write it made is flushed: the durable store is the store.
C8_FlushedAtReturn ==
    (lastOp.op \in {"init_tenant", "put", "delete", "unlock"} /\ lastOp.result = "Ok")
        => durable = db

(***************************************************************************)
(* C9                                                                      *)
(***************************************************************************)
\* C9: unlock with a wrong passphrase returns InvalidPassphrase, unlock of an
\* unknown tenant returns TenantNotFound, and both leave the master key, the
\* current tenant and the store (the cached key blob with it) as they were.
C9_FailedUnlock ==
    [][Called({"unlock"}) =>
          /\ get_tenant(db, lastOp'.tenant) = None => lastOp'.result = "TenantNotFound"
          /\ (get_tenant(db, lastOp'.tenant) # None /\ lastOp'.arg # InitPass(lastOp'.tenant))
                 => lastOp'.result = "InvalidPassphrase"
          /\ lastOp'.result \in {"InvalidPassphrase", "TenantNotFound"}
                 => UNCHANGED <<master_key, current_tenant, db, durable>>]_vars

\* a wrong passphrase was refused on an engine unlocked earlier, its blob cached
C9_Witness ==
    /\ lastOp.op = "unlock" /\ lastOp.result = "InvalidPassphrase"
    /\ master_key # None
    /\ SessionKey(lastOp.tenant) \in DOMAIN db

AddressedKey(op) == SecretKey(op.tenant, op.namespace, op.key)

\* C11: a put on an address that holds a record stores version = existing
\* version + 1, and a put on an absent address stores version = 1.
C11_VersionIncrements ==
    [][(Called({"put"}) /\ lastOp'.result = "Ok")
          => db'[AddressedKey(lastOp')].metadata.version =
                 IF AddressedKey(lastOp') \in DOMAIN db
                 THEN db[AddressedKey(lastOp')].metadata.version + 1
                 ELSE 1]_vars

\* C12: while a secret record stays in the store, its version never decreases.
C12_VersionNeverDecreases ==
    [][\A k \in DOMAIN db \cap DOMAIN db' :
           (db[k].kind = "secret" /\ db'[k].kind = "secret")
               => db'[k].metadata.version >= db[k].metadata.version]_vars

\* a put has overwritten the one record of the store: two puts, no delete
C12_Witness ==
    /\ lastOp.op = "put" /\ lastOp.result = "Ok"
    /\ Cardinality({k \in DOMAIN db : db[k].kind = "secret"}) = 1
    /\ Cardinality({i \in 1..Len(emitted[lastOp.tenant]) :
                        emitted[lastOp.tenant][i] = "secret_created"}) = 2
    /\ "secret_deleted" \notin Range(emitted[lastOp.tenant])

\* C13: a put that overwrites a record keeps its id and created_at and sets
\* updated_at to the time of the overwrite.
C13_OverwriteKeepsIdentity ==
    [][(Called({"put"}) /\ lastOp'.result = "Ok" /\ AddressedKey(lastOp') \in DOMAIN db)
          => /\ db'[AddressedKey(lastOp')].metadata.id = db[AddressedKey(lastOp')].metadata.id
             /\ db'[AddressedKey(lastOp')].metadata.created_at
                    = db[AddressedKey(lastOp')].metadata.created_at
             /\ db'[AddressedKey(lastOp')].metadata.updated_at = now']_vars

(***************************************************************************)
(* C14                                                                     *)
(***************************************************************************)
\* C14: init_tenant writes a tenant_created entry, a creating put
\* secret_created, an overwriting put secret_updated, a get that finds a
\* record secret_accessed and a successful delete secret_deleted.
C14_EventTypes ==
    [][(Called({"init_tenant", "put", "get", "delete"}) /\ lastOp'.result \in {"Ok", "Some"})
          => /\ AuditKey(lastOp'.tenant, now') \in DOMAIN db'
             /\ db'[AuditKey(lastOp'.tenant, now')].event_type =
                    CASE lastOp'.op = "init_tenant" -> "tenant_created"
                      [] lastOp'.op = "put" -> IF AddressedKey(lastOp') \in DOMAIN db
                                               THEN "secret_updated" ELSE "secret_created"
                      [] lastOp'.op = "get" -> "secret_accessed"
                      [] lastOp'.op = "delete" -> "secret_deleted"]_vars

(***************************************************************************)
(* C15, C16, C17: what init_tenant and the secret operations accept        *)
(***************************************************************************)
\* C15: init_tenant for a tenant whose record exists is refused and leaves
\* the tenant record, its salt and password_hash, as it was.
C15_InitRefusedIfExists ==
    [][(Called({"init_tenant"}) /\ get_tenant(db, lastOp'.tenant) # None)
          => /\ lastOp'.result # "Ok"
             /\ get_tenant(db', lastOp'.tenant) = get_tenant(db, lastOp'.tenant)]_vars

\* the separator occurs in the identifier
HasSeparator(str) == \E i \in 1..Len(str) : str[i] = COLON

\* C16: init_tenant, put, get and delete given a tenant id, namespace or key
\* with ':' in it return an error and leave the store unchanged.
C16_SeparatorRejected ==
    [][(/\ Called({"init_tenant", "put", "get", "delete"})
        /\ \/ HasSeparator(lastOp'.tenant)
           \/ HasSeparator(lastOp'.namespace)
           \/ HasSeparator(lastOp'.key))
          => /\ lastOp'.result \notin {"Ok", "Some", "None"}
             /\ UNCHANGED <<db, durable>>]_vars

\* C17: a successful put or delete addressed to one (namespace, key) leaves
\* what get returns for every other (namespace, key) of the tenant unchanged.
C17_AddressesDisjoint ==
    [][(Called({"put", "delete"}) /\ lastOp'.result = "Ok")
          => \A y \in SecretAddrs :
                 y # <<lastOp'.key, lastOp'.namespace>>
                     => get_result(y[1], y[2])' = get_result(y[1], y[2])]_vars

(***************************************************************************)
(* C18                                                                     *)
(***************************************************************************)
\* C18: on an unlocked engine, get of an address with no record returns None
\* and delete of it returns SecretNotFound; neither changes the store.
C18_AbsentSecret ==
    [][(/\ Called({"get", "delete"})
        /\ master_key # None
        /\ AddressedKey(lastOp') \notin DOMAIN db)
          => /\ lastOp'.op = "get" => lastOp'.result = "None"
             /\ lastOp'.op = "delete" => lastOp'.result = "SecretNotFound"
             /\ UNCHANGED <<db, durable>>]_vars

\* a delete found no record at its address while the store holds another secret
C18_Witness ==
    /\ lastOp.op = "delete" /\ lastOp.result = "SecretNotFound"
    /\ \E k \in DOMAIN db : db[k].kind = "secret"

(***************************************************************************)
(* C19                                                                     *)
(***************************************************************************)
\* the record was changed after it was sealed
IsAltered(encrypted) ==
    encrypted.ciphertext.sealed_with = Unsealed \/ encrypted.nonce # encrypted.ciphertext.sealed_nonce

\* C19: a get of a secret whose stored ciphertext or nonce was modified
\* returns the error AuthenticationFailed.
C19_TamperDetected ==
    (/\ lastOp.op = "get" /\ lastOp.result # "VaultLocked"
     /\ AddressedKey(lastOp) \in DOMAIN db
     /\ IsAltered(db[AddressedKey(lastOp)].encrypted_value))
        => lastOp.result = "AuthenticationFailed"

(***************************************************************************)
(* C20                                                                     *)
(***************************************************************************)
\* C20: an engine constructed while a valid ticket for T and the blob
\* session_key:T exist is unlocked for T with the key of the last successful
\* unlock of T, and get returns the values stored under that key.
C20_AutoUnlock ==
    (/\ lastOp.op = "new"
     /\ session # None /\ is_valid(The(session), now)
     /\ SessionKey(lastOp.tenant) \in DOMAIN db)
        => /\ UnlockedFor(The(session).tenant_id)
           /\ master_key = lastUnlock[The(session).tenant_id]
           /\ \A x \in SecretAddrs :
                  LET k == SecretKey(The(session).tenant_id, x[2], x[1])
                  IN  (k \in DOMAIN db /\ db[k].encrypted_value.ciphertext.sealed_with
                                             = The(lastUnlock[The(session).tenant_id]).key)
                          => get_result(x[1], x[2]) =
                                 [tag |-> "Some",
                                  value |-> <<db[k].encrypted_value.ciphertext.plaintext,
                                              db[k].metadata.tags>>]

\* an engine constructed over a store that holds a secret reads it back
C20_Witness ==
    /\ lastOp.op = "new"
    /\ session # None /\ is_valid(The(session), now)
    /\ \E x \in SecretAddrs : get_result(x[1], x[2]).tag = "Some"

(***************************************************************************)
(* C21, C22, C23: the ticket and the cached key blob                       *)
(***************************************************************************)
\* C21: constructing an engine while the ticket has expired leaves the
\* engine locked and deletes the session file and the blob of the ticket's
\* tenant.
C21_ExpiredTicketCleared ==
    [][(Called({"new"}) /\ session # None /\ ~is_valid(The(session), now'))
          => /\ master_key' = None /\ current_tenant' = None
             /\ session' = None
             /\ SessionKey(The(session).tenant_id) \notin DOMAIN db']_vars

\* C22: after a logout the blob of the session's tenant is gone from the
\* store, the session file is removed and a newly constructed engine is locked.
C22_LogoutClears ==
    [][(Called({"logout"}) /\ lastOp'.result = "Ok")
          => /\ SessionKey(lastOp'.tenant) \notin DOMAIN db'
             /\ session' = None
             /\ auto_unlock_key(db', session', now', now') = None]_vars

\* C23: on a locked engine over a store in which T was unlocked before,
\* unlock(T, wrong passphrase) returns InvalidPassphrase and the store holds
\* no blob session_key:T afterwards.
C23_WrongPassphraseNoBlob ==
    [][(/\ Called({"unlock"})
        /\ lastOp'.tenant \in TenantIds
        /\ master_key = None
        /\ lastUnlock[lastOp'.tenant] # None
        /\ lastOp'.arg # InitPass(lastOp'.tenant))
          => /\ lastOp'.result = "InvalidPassphrase"
             /\ SessionKey(lastOp'.tenant) \notin DOMAIN db']_vars

(***************************************************************************)
(* C24: where the master key is written                                    *)
(***************************************************************************)
\* the serialised record holds the 32 bytes key in one of its fields; a
\* secret's encrypted_value is a seal under the key, not the key
HoldsKey(record, key) ==
    \/ record.kind = "tenant" /\ record.password_hash = key
    \/ record.kind = "session_key" /\ record.key_bytes = key

\* C24: in every state of the store a master key of tenant t is held by no
\* record other than session_key:t.
C24_KeyOnlyInBlob ==
    \A t \in TenantIds : \A key \in KeysOf(t) : \A k \in DOMAIN db :
        HoldsKey(db[k], key) => k = SessionKey(t)

(***************************************************************************)
(* The command line: ticket lifetime and roles.  In this specification the *)
(* clock counts half hours, so that "less than one hour left" is a state.  *)
(***************************************************************************)
TicksPerHour == 2

\* chrono::Duration::hours(h) in clock units
hours(h) == h * TicksPerHour

\* Duration::num_hours: whole hours, truncated towards zero
num_hours(d) == IF d >= 0 THEN d \div TicksPerHour ELSE 0 - ((0 - d) \div TicksPerHour)

\* login_command: let duration_hours = if remember { 168 } else { 24 }
duration_hours(remember) == IF remember THEN 168 ELSE 24

Roles == {"Admin", "Owner", "Writer", "Reader", "Auditor"}

can_read(role) == role \in {"Admin", "Owner", "Writer", "Reader", "Auditor"}
can_write(role) == role \in {"Admin", "Owner", "Writer"}
can_admin(role) == role \in {"Admin", "Owner"}
can_audit(role) == role \in {"Admin", "Auditor"}

\* the instants at which a command reads the clock: the start, and the last
\* half hour before and the first after the ends of the tickets' lifetimes
Instants ==
    {0, 1, hours(24) - 1, hours(24), hours(48) - 2, hours(48) - 1, hours(168) - 1, hours(168)}

\* Utc::now() in a command: an instant not before the previous reading
CliReadings == {c \in Instants : c >= now}

\* mutant: the refreshed ticket gets the default lifetime
refresh_default(ticket, nanos) == [ticket EXCEPT !.expires_at = nanos + hours(24)]

\* Session::refresh at the reading nanos
refresh(ticket, nanos) ==
    LET duration == ticket.expires_at - ticket.created_at
    IN  [ticket EXCEPT !.expires_at = nanos + duration]

\* Session::time_until_expiry at the reading nanos
time_until_expiry(ticket, nanos) == ticket.expires_at - nanos

\* whoami_command: get_current_session at the reading c1, is_valid and
\* time_until_expiry at c2, and with less than an hour left refresh at c3
\* and save_session
whoami_command(c1, c2, c3) ==
    LET loaded == load_session(session, c1)
    IN  /\ IF loaded = None
           THEN /\ lastOp' = Op("whoami", <<>>, <<>>, <<>>, NoArg, "NotLoggedIn", <<>>)
                /\ session' = None
                /\ now' = IF session = None THEN now ELSE c1
           ELSE IF ~is_valid(The(loaded), c2)
           THEN /\ lastOp' = Op("whoami", The(loaded).tenant_id, <<>>, <<>>, NoArg, "Expired", <<>>)
                /\ now' = c2
                /\ UNCHANGED session
           ELSE IF num_hours(time_until_expiry(The(loaded), c2)) < 1
           THEN /\ lastOp' = Op("whoami", The(loaded).tenant_id, <<>>, <<>>, NoArg, "Refreshed", <<>>)
                /\ session' = Some(refresh(The(loaded), c3))
                /\ now' = c3
           ELSE /\ lastOp' = Op("whoami", The(loaded).tenant_id, <<>>, <<>>, NoArg, "Active", <<>>)
                /\ now' = c2
                /\ UNCHANGED session
        /\ UNCHANGED <<db, durable, master_key, current_tenant, lastPut, emitted, inits, lastUnlock>>

\* vault login [--remember] without cloud configuration: the role is Admin
CallCliLogin ==
    /\ lastOp = Idle
    /\ \E t \in TenantIds, p \in Passphrases, remember \in BOOLEAN, c \in CliReadings :
           login_command(t, p, "Admin", hours(duration_hours(remember)), c)

CallWhoami ==
    /\ lastOp = Idle
    /\ \E c1 \in CliReadings : \E c2 \in {c \in CliReadings : c >= c1} :
           \E c3 \in {c \in CliReadings : c >= c2} : whoami_command(c1, c2, c3)

NextCli ==
    \/ CallInitTenantWithPassword
    \/ CallCliLogin
    \/ CallWhoami
    \/ Return

SpecCli == Init /\ [][NextCli]_vars

\* C25: a ticket written by login expires 24 h after its creation, 168 h with
\* remember; whoami finds it valid exactly while the clock is before
\* expires_at; a refresh at t sets expires_at to t + (expires_at - created_at)
\* of the ticket before the call, changes nothing else, and the refreshed
\* ticket is the content of the session file.
C25_TicketLifetime ==
    [][/\ \A remember \in BOOLEAN :
             (/\ Called({"unlock"})
              /\ lastOp'.result = "Ok"
              /\ login_command(lastOp'.tenant, lastOp'.arg, "Admin",
                               hours(duration_hours(remember)), now'))
                => /\ session' # None
                   /\ The(session').created_at = now'
                   /\ The(session').expires_at =
                          now' + (IF remember THEN 168 ELSE 24) * TicksPerHour
                   /\ is_valid(The(session'), now')
       /\ (Called({"whoami"}) /\ session # None)
             => LET s == The(session)
                IN  /\ lastOp'.result \in {"NotLoggedIn", "Expired"} => now' >= s.expires_at
                    /\ lastOp'.result = "NotLoggedIn" => session' = None
                    /\ lastOp'.result \in {"Expired", "Active"} => session' = session
                    /\ lastOp'.result = "Active" => now' < s.expires_at
                    /\ now' < s.expires_at => lastOp'.result \in {"Active", "Refreshed"}
                    /\ lastOp'.result = "Refreshed"
                          => session' = Some([s EXCEPT !.expires_at =
                                                 now' + (s.expires_at - s.created_at)])]_vars

\* a ticket refreshed before is refreshed again in its last half hour: its
\* lifetime is then longer than the 24 h it was created with
C25_Witness ==
    /\ lastOp.op = "whoami" /\ lastOp.result = "Refreshed"
    /\ session # None
    /\ The(session).expires_at - The(session).created_at > hours(24)
    /\ The(session).expires_at = now + (hours(48) - 1)

(***************************************************************************)
(* Roles: login in collaborative mode, then the engine's operations        *)
(***************************************************************************)
\* vault login in collaborative mode: the role is the one get_user_role
\* reports, Reader when it fails
CallRoleLogin ==
    /\ lastOp = Idle
    /\ \E t \in TenantIds, p \in Passphrases, role \in Roles, c \in ClockReadings :
           login_command(t, p, role, hours(duration_hours(FALSE)), c)

NextRoles ==
    \/ CallInitTenantWithPassword
    \/ CallRoleLogin
    \/ CallSessionPut
    \/ CallSessionGet
    \/ CallDelete
    \/ Return

SpecRoles == Init /\ [][NextRoles]_vars

\* the capability the operation needs
Permitted(role, op) == IF op \in {"put", "delete"} THEN can_write(role) ELSE can_read(role)

\* C26: on a valid session an operation is refused with PermissionDenied
\* exactly when the role of the session lacks the capability it needs: a put
\* or a delete by Reader or Auditor fails with PermissionDenied.
C26_RoleGating ==
    [][(/\ Called({"put", "get", "delete"})
        /\ session # None
        /\ is_valid(The(session), now')
        /\ UnlockedFor(The(session).tenant_id))
          => (lastOp'.result = "PermissionDenied" <=> ~Permitted(The(session).role, lastOp'.op))]_vars

(***************************************************************************)
(* Scans: list_with_metadata with a tag filter, search, get_stats          *)
(***************************************************************************)
\* the tag filters the callers give
TagFilters == {None, Some(<<"g">>), Some(<<"G">>)}

\* mutant: the listing is recorded in the audit log
list_with_metadata_logged(namespace, tag_filter) ==
    /\ ~LockedForScan
    /\ lastOp' = Op("list_with_metadata", The(current_tenant), <<>>, namespace, tag_filter, "Ok",
                    list_names(db, The(current_tenant), namespace, tag_filter))
    /\ db' = log_audit_event(db, The(current_tenant), "secret_listed", <<namespace>>, now)
    /\ UNCHANGED <<durable, master_key, current_tenant, now, lastPut, emitted, inits>>

\* VaultStorage::list_with_metadata, the names of its (name, metadata) pairs
list_with_metadata(namespace, tag_filter) ==
    /\ lastOp' = IF LockedForScan
                 THEN Op("list_with_metadata", <<>>, <<>>, <<>>, NoArg, "VaultLocked", <<>>)
                 ELSE Op("list_with_metadata", The(current_tenant), <<>>, namespace, tag_filter, "Ok",
                         list_names(db, The(current_tenant), namespace, tag_filter))
    /\ UNCHANGED <<db, durable, master_key, current_tenant, now, lastPut, emitted, inits>>

\* the counts of VaultStats over the whole store, whatever the engine's lock
\* state; total_size, the sum of the serialised lengths, is not represented
VaultStats(store) ==
    LET secrets == ScanPrefix(store, <<"secret", COLON>>)
        tenants == ScanPrefix(store, <<"tenant", COLON>>)
    IN  [secret_count |-> Cardinality(secrets),
         namespace_count |->
             Cardinality({<<Split(k)[2], Split(k)[3]>> : k \in {j \in secrets : Len(Split(j)) >= 3}}),
         tenant_count |->
             Cardinality({Split(k)[2] : k \in {j \in secrets : Len(Split(j)) >= 3}}
                         \cup {Split(k)[2] : k \in {j \in tenants : Len(Split(j)) >= 2}})]

\* VaultStorage::get_stats
get_stats ==
    /\ lastOp' = Op("get_stats", <<>>, <<>>, <<>>, NoArg, "Ok", VaultStats(db))
    /\ UNCHANGED <<db, durable, master_key, current_tenant, now, lastPut, emitted, inits>>

CallListWithMetadata ==
    /\ lastOp = Idle
    /\ \E ns \in Namespaces, f \in TagFilters : list_with_metadata(ns, f)
    /\ UNCHANGED <<session, lastUnlock>>

CallGetStats ==
    /\ lastOp = Idle
    /\ get_stats
    /\ UNCHANGED <<session, lastUnlock>>

NextScan ==
    \/ CallInitTenantWithPassword
    \/ CallUnlock
    \/ CallPut
    \/ CallDelete
    \/ CallList
    \/ CallListWithMetadata
    \/ CallSearch
    \/ CallGetStats
    \/ Return

SpecScan == Init /\ [][NextScan]_vars

\* the addresses of tenant_id that hold a secret: put and not deleted since
StoredAddrs(tenant_id) == {x \in SecretAddrs : lastPut[<<tenant_id, x>>].state = "Stored"}

\* C28: list_with_metadata(namespace, tag_filter) returns exactly the keys of
\* the current tenant's secrets in that namespace, with a filter only those
\* whose tags contain the filter string itself, each key once, in ascending
\* order.
C28_ListExact ==
    (lastOp.op = "list_with_metadata" /\ lastOp.result = "Ok") =>
        LET expected == {x \in StoredAddrs(lastOp.tenant) :
                            /\ x[2] = lastOp.namespace
                            /\ lastOp.arg = None \/
                                  The(lastOp.arg) \in Range(lastPut[<<lastOp.tenant, x>>].tags)}
        IN  /\ Range(lastOp.value) = {x[1] : x \in expected}
            /\ Len(lastOp.value) = Cardinality(expected)
            /\ \A i, j \in 1..Len(lastOp.value) : i < j => StrLess(lastOp.value[i], lastOp.value[j])

\* C29: search(q, namespace_filter) returns exactly the (namespace, key) pairs
\* of the current tenant's secrets, within the filter's namespace if one is
\* given, whose key or one of whose tags contains q without regard to case,
\* each pair once, in ascending order.
C29_SearchExact ==
    (lastOp.op = "search" /\ lastOp.result = "Ok") =>
        LET q == to_lowercase(lastOp.key)
            expected == {x \in StoredAddrs(lastOp.tenant) :
                            /\ lastOp.namespace = None \/ x[2] = The(lastOp.namespace)
                            /\ \/ contains(to_lowercase(x[1]), q)
                               \/ \E tag \in Range(lastPut[<<lastOp.tenant, x>>].tags) :
                                      contains(to_lowercase(tag), q)}
        IN  /\ Range(lastOp.value) = {<<x[2], x[1]>> : x \in expected}
            /\ Len(lastOp.value) = Cardinality(expected)
            /\ \A i, j \in 1..Len(lastOp.value) :
                   i < j => \/ StrLess(lastOp.value[i][1], lastOp.value[j][1])
                            \/ /\ lastOp.value[i][1] = lastOp.value[j][1]
                               /\ StrLess(lastOp.value[i][2], lastOp.value[j][2])

\* C30: list, list_with_metadata, search and get_stats leave the store as it
\* was: no audit entry is added and no record changes, in memory or on disk.
C30_ReadsDoNotWrite ==
    [][Called({"list", "list_with_metadata", "search", "get_stats"})
          => /\ db' = db
             /\ durable' = durable]_vars

\* get_stats has counted a store that holds two secrets
C30_Witness == lastOp.op = "get_stats" /\ lastOp.value.secret_count = 2

(***************************************************************************)
(* Concurrent readers on one engine: the caller starts two read operations *)
(* on &self and waits for both.  While they run, lastOp holds the position *)
(* of each; writers run only between such calls.                           *)
(***************************************************************************)
ReaderIds == {"r1", "r2"}

\* a read operation that has not started: a get, a list or a search
Reader(kind, key, namespace) ==
    [kind |-> kind, key |-> key, namespace |-> namespace, pc |-> "read",
     tag |-> NoArg, value |-> <<>>]

ReaderCalls ==
    {Reader("get", x[1], x[2]) : x \in SessionAddrs}
        \cup {Reader("list", <<>>, x[2]) : x \in SessionAddrs}
        \cup {Reader("search", q, <<>>) : q \in Queries}

\* a reader after its next step took it to pc with the result (tag, value)
Moved(r, pc, tag, value) ==
    Op("join", lastOp.tenant, <<>>, <<>>, NoArg, "Running",
       [lastOp.value EXCEPT ![r] = [@ EXCEPT !.pc = pc, !.tag = tag, !.value = value]])

CallJoin ==
    /\ lastOp = Idle
    /\ \E f \in [ReaderIds -> ReaderCalls] :
           lastOp' = Op("join", IF current_tenant = None THEN <<>> ELSE The(current_tenant),
                        <<>>, <<>>, NoArg, "Running", f)
    /\ UNCHANGED <<db, durable, master_key, current_tenant, now, lastPut, emitted, inits,
                    session, lastUnlock>>

\* the reader's part before its audit entry: get_with_metadata up to the
\* decrypted value, or the whole of list or search
ReadStep(r) ==
    /\ lastOp.op = "join"
    /\ lastOp.value[r].pc = "read"
    /\ LET me == lastOp.value[r]
           res == get_result(me.key, me.namespace)
       IN  lastOp' =
             IF me.kind = "get"
             THEN Moved(r, IF res.tag = "Some" THEN "log" ELSE "done", res.tag, res.value)
             ELSE IF LockedForScan THEN Moved(r, "done", "VaultLocked", <<>>)
             ELSE IF me.kind = "list"
             THEN Moved(r, "done", "Ok", list_names(db, The(current_tenant), me.namespace, None))
             ELSE Moved(r, "done", "Ok", search_pairs(db, The(current_tenant), me.key, None))
    /\ UNCHANGED <<db, durable, master_key, current_tenant, now, lastPut, emitted, inits,
                    session, lastUnlock>>

\* the reader's log_audit_event: Utc::now() and one insert.  emitted keeps
\* the events of the calls made one at a time.
LogStep(r) ==
    /\ lastOp.op = "join"
    /\ lastOp.value[r].pc = "log"
    /\ \E c \in ClockReadings :
           /\ db' = log_audit_event(db, lastOp.tenant, "secret_accessed",
                                    <<lastOp.value[r].namespace, lastOp.value[r].key>>, c)
           /\ now' = c
    /\ lastOp' = Moved(r, "done", lastOp.value[r].tag, lastOp.value[r].value)
    /\ UNCHANGED <<durable, master_key, current_tenant, lastPut, emitted, inits,
                    session, lastUnlock>>

\* the caller takes the results once every reader has finished
JoinReturn ==
    /\ lastOp.op = "join" => \A r \in ReaderIds : lastOp.value[r].pc = "done"
    /\ Return

NextReaders ==
    \/ CallInitTenantWithPassword
    \/ CallUnlock
    \/ CallSessionPut
    \/ CallJoin
    \/ \E r \in ReaderIds : ReadStep(r)
    \/ \E r \in ReaderIds : LogStep(r)
    \/ JoinReturn

SpecReaders == Init /\ [][NextReaders]_vars

\* C27: when two concurrent reads on an engine unlocked for a tenant that was
\* initialised once have finished, under whatever interleaving, each get has
\* returned the stored value, the secret
\* records are what they were, and the store holds a secret_accessed entry
\* for every get that returned a value.
C27_ConcurrentReads ==
    (/\ lastOp.op = "join"
     /\ \A r \in ReaderIds : lastOp.value[r].pc = "done"
     /\ UnlockedFor(lastOp.tenant)
     /\ Len(inits[lastOp.tenant]) = 1)
        => LET t == lastOp.tenant
               hits == {r \in ReaderIds : lastOp.value[r].kind = "get" /\ lastOp.value[r].tag = "Some"}
           IN  /\ \A r \in ReaderIds :
                      lastOp.value[r].kind = "get" =>
                          LET last == lastPut[<<t, <<lastOp.value[r].key, lastOp.value[r].namespace>>>>]
                          IN  IF last.state = "Stored"
                              THEN /\ lastOp.value[r].tag = "Some"
                                   /\ lastOp.value[r].value = <<last.value, last.tags>>
                              ELSE lastOp.value[r].tag = "None"
               /\ \A x \in SessionAddrs :
                      lastPut[<<t, x>>].state = "Stored" =>
                          get_result(x[1], x[2]) =
                              [tag |-> "Some", value |-> <<lastPut[<<t, x>>].value, lastPut[<<t, x>>].tags>>]
               /\ Cardinality({k \in AuditEntriesOf(db, t) : db[k].event_type = "secret_accessed"})
                      >= Cardinality(hits)

(***************************************************************************)
(* The cipher on its own: MasterKey::encrypt and MasterKey::decrypt over   *)
(* both suites.  lastOp.value holds the blob between the two calls.        *)
(***************************************************************************)
Suites == {Aes256Gcm, ChaCha20Poly1305}

\* the master keys derive_from_passphrase yields for the inputs
MasterKeys ==
    {derive_from_passphrase(p, salt, a) : p \in Passphrases, salt \in Salts, a \in Suites}

Plaintexts == {"v", "w"}

\* mk.encrypt(plaintext): the caller holds <<mk, plaintext, blob>>
CallEncrypt ==
    /\ lastOp = Idle
    /\ \E mk \in MasterKeys, plaintext \in Plaintexts, nonce \in Nonces :
           lastOp' = Op("encrypt", <<>>, <<>>, <<>>, NoArg, "Ok",
                        <<mk, plaintext, encrypt(mk, plaintext, nonce)>>)
    /\ UNCHANGED <<db, durable, master_key, current_tenant, now, lastPut, emitted, inits,
                    session, lastUnlock>>

\* a byte of the blob's ciphertext or nonce changes before it is decrypted
AlterBlob ==
    /\ lastOp.op = "encrypt"
    /\ ~IsAltered(lastOp.value[3])
    /\ \E part \in {"ciphertext", "nonce"} :
           lastOp' = [lastOp EXCEPT !.value[3] = Altered(@, part)]
    /\ UNCHANGED <<db, durable, master_key, current_tenant, now, lastPut, emitted, inits,
                    session, lastUnlock>>

\* with.decrypt(blob): the caller holds what it held and the Result
CallDecrypt ==
    /\ lastOp.op = "encrypt"
    /\ \E with \in MasterKeys :
           LET res == decrypt(with, lastOp.value[3])
           IN  lastOp' = Op("decrypt", <<>>, <<>>, <<>>, NoArg, res.tag,
                            lastOp.value \o <<with, res.plaintext>>)
    /\ UNCHANGED <<db, durable, master_key, current_tenant, now, lastPut, emitted, inits,
                    session, lastUnlock>>

NextCrypto ==
    \/ CallEncrypt
    \/ AlterBlob
    \/ CallDecrypt
    \/ Return

SpecCrypto == Init /\ [][NextCrypto]_vars

\* C31: for every plaintext and both suites, decrypt under the master key
\* that encrypted returns the plaintext that was encrypted.
C31_RoundTrip ==
    (/\ lastOp.op = "decrypt"
     /\ lastOp.value[4] = lastOp.value[1]
     /\ ~IsAltered(lastOp.value[3]))
        => /\ lastOp.result = "Ok"
           /\ lastOp.value[5] = lastOp.value[2]

\* a ChaCha20-Poly1305 blob has been decrypted by the key that encrypted it
C31_Witness ==
    /\ lastOp.op = "decrypt" /\ lastOp.result = "Ok"
    /\ lastOp.value[4] = lastOp.value[1]
    /\ lastOp.value[1].algorithm = ChaCha20Poly1305
    /\ lastOp.value[5] = "w"

\* C32: decrypt with key bytes other than those that encrypted the blob, or
\* of a blob whose ciphertext or nonce was altered, returns the error
\* AuthenticationFailed and no plaintext.
C32_WrongKeyOrAltered ==
    (/\ lastOp.op = "decrypt"
     /\ lastOp.value[4].key # lastOp.value[1].key \/ IsAltered(lastOp.value[3]))
        => /\ lastOp.result = "AuthenticationFailed"
           /\ lastOp.value[5] = NoArg

\* C33: decrypt returns an error for every blob whose algorithm tag is not
\* the suite of the master key it is given, whatever the key bytes.
C33_SuiteMismatchRejected ==
    (/\ lastOp.op = "decrypt"
     /\ lastOp.value[3].algorithm # lastOp.value[4].algorithm)
        => lastOp.result # "Ok"

(***************************************************************************)
(* C34: the tenant created without a password                              *)
(***************************************************************************)
\* C34: on a store where tenant T was initialised once, by init_tenant
\* without a password, unlock(T, passphrase) returns Ok and leaves the engine
\* unlocked for T, so that the calls that follow are served.
C34_UnlockAfterPlainInit ==
    [][(/\ Called({"unlock"})
        /\ lastOp'.tenant \in TenantIds
        /\ Len(inits[lastOp'.tenant]) = 1
        /\ inits[lastOp'.tenant][1].key = ZeroHash)
          => /\ lastOp'.result = "Ok"
             /\ master_key' # None
             /\ current_tenant' = Some(lastOp'.tenant)]_vars

(***************************************************************************)
(* Sync status                                                             *)
(***************************************************************************)
SyncBackends == {"S3", "Postgres"}

\* SyncManager::get_local_secrets: the placeholder returns an empty map,
\* whatever the store holds
get_local_secrets(store) == [k \in {} |-> store[k]]

\* s3_get_metadata / postgres_get_metadata: sync_version 0, no conflicts
get_metadata(backend) == [sync_version |-> 0, conflicts |-> {}]

\* detect_conflicts: a ConflictInfo for every local secret whose version is
\* not the remote sync_version and whose key has four segments or more
detect_conflicts(local_secrets, remote_metadata) ==
    {[secret_key |-> Split(k)[4], namespace |-> Split(k)[3],
      local_version |-> local_secrets[k].metadata.version,
      remote_version |-> remote_metadata.sync_version,
      conflict_type |-> "ModifiedBoth"] :
        k \in {j \in DOMAIN local_secrets :
                  /\ local_secrets[j].metadata.version # remote_metadata.sync_version
                  /\ Len(Split(j)) >= 4}}

\* SyncManager::status over the manager's engine
status(backend) ==
    LET local_secrets == get_local_secrets(db)
        remote_metadata == get_metadata(backend)
        conflicts == detect_conflicts(local_secrets, remote_metadata)
    IN  /\ lastOp' = Op("status", <<>>, <<>>, <<>>, NoArg, "Ok",
                        [local_secrets |-> Cardinality(DOMAIN local_secrets),
                         remote_secrets |-> remote_metadata.sync_version,
                         conflicts |-> Cardinality(conflicts),
                         sync_needed |-> conflicts # {}])
        /\ UNCHANGED <<db, durable, master_key, current_tenant, now, lastPut, emitted, inits>>

CallStatus ==
    /\ lastOp = Idle
    /\ \E backend \in SyncBackends : status(backend)
    /\ UNCHANGED <<session, lastUnlock>>

NextSync ==
    \/ CallInitTenantWithPassword
    \/ CallUnlock
    \/ CallSessionPut
    \/ CallStatus
    \/ Return

SpecSync == Init /\ [][NextSync]_vars

\* C35: status counts as conflicts exactly the local secrets whose version is
\* not the remote version it observed, and reports sync_needed iff there is
\* such a secret.
C35_StatusConflicts ==
    lastOp.op = "status" =>
        LET differing == {k \in ScanPrefix(db, <<"secret", COLON>>) :
                             db[k].metadata.version # lastOp.value.remote_secrets}
        IN  /\ lastOp.value.conflicts = Cardinality(differing)
            /\ lastOp.value.sync_needed <=> differing # {}

(***************************************************************************)
(* Health check                                                            *)
(***************************************************************************)
\* let test_key = "health_check_test"; let test_value = b"test"
ProbeKey == <<"health_check_test">>
ProbeValue == [kind |-> "probe", value |-> "test"]

\* what the underlying store does during one health check: nothing wrong, or
\* an error of one of its calls, or a read-back that is not what was written
Faults == {"none", "checksum", "insert", "get", "mismatch", "missing", "remove", "flush"}

\* VaultStorage::health_check under the fault: checksum, insert, get and
\* compare, remove, flush; "?" turns a sled error into VaultError::Storage
health_check(fault) ==
    LET probed == Insert(db, ProbeKey, ProbeValue)
    IN  /\ lastOp' = Op("health_check", <<>>, <<>>, <<>>, fault,
                        CASE fault = "none" -> "Ok"
                          [] fault \in {"mismatch", "missing"} -> "Crypto"
                          [] OTHER -> "Storage",
                        <<>>)
        /\ db' = CASE fault \in {"checksum", "insert"} -> db
                   [] fault \in {"get", "mismatch", "remove"} -> probed
                   [] fault = "missing" -> Remove(probed, ProbeKey)
                   [] OTHER -> Remove(probed, ProbeKey)
        /\ durable' = IF fault = "none" THEN db' ELSE durable
        /\ UNCHANGED <<master_key, current_tenant, now, lastPut, emitted, inits>>

CallHealthCheck ==
    /\ lastOp = Idle
    /\ \E fault \in Faults : health_check(fault)
    /\ UNCHANGED <<session, lastUnlock>>

NextHealth ==
    \/ CallInitTenantWithPassword
    \/ CallUnlock
    \/ CallSessionPut
    \/ CallSessionGet
    \/ CallHealthCheck
    \/ Return

SpecHealth == Init /\ [][NextHealth]_vars

\* C36: on a healthy store health_check returns Ok and leaves the contents of
\* the store as they were, the probe key removed; when one of its steps fails
\* it returns the error StorageCorruption.
C36_HealthCheck ==
    [][Called({"health_check"})
          => /\ lastOp'.arg = "none"
                   => /\ lastOp'.result = "Ok"
                      /\ db' = db
                      /\ ProbeKey \notin DOMAIN db'
             /\ lastOp'.arg # "none" => lastOp'.result = "StorageCorruption"]_vars

(***************************************************************************)
(* The key in memory and the tenant record                                 *)
(***************************************************************************)
\* C37: whenever the engine is unlocked for tenant T, by unlock or by
\* auto-unlock from the cached blob, its in-memory master key equals the
\* password_hash stored in T's current tenant record, whatever sequence of
\* init_tenant, unlock, logout and engine constructions led there.
C37_KeyMatchesRecord ==
    \A t \in TenantIds :
        UnlockedFor(t) => /\ get_tenant(db, t) # None
                          /\ The(master_key).key = The(get_tenant(db, t)).password_hash

\* C40: in every reachable engine state the in-memory master key is present
\* if and only if the current tenant is set.
C40_KeyIffTenant == (master_key = None) <=> (current_tenant = None)

\* an unlocked engine with a ticket has refused a wrong passphrase and is
\* still unlocked for its tenant
C40_Witness ==
    /\ lastOp.op = "unlock"
    /\ lastOp.result = "InvalidPassphrase"
    /\ master_key # None
    /\ current_tenant = Some(lastOp.tenant)
    /\ session # None

(***************************************************************************)
(* Repeated refresh of one ticket                                          *)
(***************************************************************************)
\* C39: for any number of refreshes of a ticket, the validity left right
\* after a refresh (expires_at minus the time of the refresh) is at most the
\* duration the ticket was created with, 24 h or 168 h.  A refresh never
\* shortens expires_at - created_at, so a ticket whose lifetime is below
\* 168 h was created with 24 h.
C39_RefreshBounded ==
    [][(Called({"whoami"}) /\ lastOp'.result = "Refreshed")
          => LET s == The(session)
                 created_with == IF s.expires_at - s.created_at < hours(168)
                                 THEN hours(24) ELSE hours(168)
             IN  time_until_expiry(The(session'), now') <= created_with]_vars

(***************************************************************************)
(* Two tenants in one store                                                *)
(***************************************************************************)
\* each tenant is initialised once: the store then holds one salt per tenant
CallTenantInit ==
    /\ lastOp = Idle
    /\ \E t \in TenantIds \cup OtherTenants, a \in Admins, p \in Passphrases, c \in ClockReadings :
           /\ get_tenant(db, t) = None
           /\ init_tenant_with_password(t, a, p, c)
    /\ UNCHANGED <<session, lastUnlock>>

CallTenantUnlock ==
    /\ lastOp = Idle
    /\ \E t \in TenantIds \cup OtherTenants, p \in Passphrases : unlock(t, p)
    /\ UNCHANGED <<now, session>>

\* the engine, unlocked for either tenant, stores a secret under b in a
CallTenantPut ==
    /\ lastOp = Idle
    /\ \E x \in OtherAddrs, n \in Nonces, c \in ClockReadings :
           put_with_tags(x[1], "v", x[2], <<>>, n, c)
    /\ UNCHANGED <<session, lastUnlock>>

NextTenants ==
    \/ CallTenantInit
    \/ CallTenantUnlock
    \/ CallTenantPut
    \/ CallGet
    \/ CallList
    \/ CallDelete
    \/ CallSearch
    \/ Return

SpecTenants == Init /\ [][NextTenants]_vars

\* the secret records put_with_tags wrote for tenant_id: metadata.tenant_id
RecordsOf(store, tenant_id) ==
    {k \in DOMAIN store : store[k].kind = "secret" /\ store[k].metadata.tenant_id = tenant_id}

\* the store without the secret records of tenant_id
Without(store, tenant_id) ==
    [k \in DOMAIN store \ RecordsOf(store, tenant_id) |-> store[k]]

\* C38: with the engine unlocked for tenant A, get, list, search and delete
\* never return or modify a secret record stored under another tenant B: the
\* records of B are after the call what they were before, a get that returns
\* a value read a record of A, and list and search return what they return
\* on the store without the records of B.
C38_TenantIsolation ==
    [][\A A \in TenantIds \cup OtherTenants : \A B \in (TenantIds \cup OtherTenants) \ {A} :
          (Called({"get", "list", "search", "delete"}) /\ UnlockedFor(A))
             => /\ \A k \in RecordsOf(db, B) : k \in DOMAIN db' /\ db'[k] = db[k]
                /\ (lastOp'.op = "get" /\ lastOp'.result = "Some")
                      => SecretKey(A, lastOp'.namespace, lastOp'.key) \in RecordsOf(db, A)
                /\ lastOp'.op = "list"
                      => lastOp'.value = list_names(Without(db, B), A, lastOp'.namespace, None)
                /\ lastOp'.op = "search"
                      => lastOp'.value = search_pairs(Without(db, B), A, lastOp'.key,
                                                      lastOp'.namespace)]_vars

====
